---- MODULE Spec2Model ----
(***************************************************************************)
(* Screenshot diffing (ImageDiffer) and remote device resolution (CbtApi)  *)
(* of test/screenshot/lib.                                                 *)
(*                                                                         *)
(* Four specifications share the module:                                   *)
(*   Spec        one compareAllScreenshots batch and its concurrent        *)
(*               compareOneScreenshot_ tasks                               *)
(*   SpecFetch   calls of fetchAvailableDevices over the module-level      *)
(*               allBrowsersPromise                                        *)
(*   SpecVersion compareVersions / parseVersionNumber on pairs of strings  *)
(*   SpecMatch   getMatchingCbtUserAgent_ on a catalog and a user agent    *)
(***************************************************************************)
EXTENDS Integers, Sequences, FiniteSets, TLC

\* ------------------------------------------------------------------ bounds

\* Largest comparable_screenshot_list of a batch.
MaxScreenshots == 3

\* Longest generated version string, in characters.
MaxVersionLength == 3

\* Most devices in a catalog.
MaxDevices == 2

\* Most calls of fetchAvailableDevices in the process.
MaxCalls == 3

\* Most resolutions of one user agent against one catalog.
MaxResolutions == 2

\* ------------------------------------------------------------------ state

VARIABLES
    \* ImageDiffer: reportData and one compareAllScreenshots call
    screenshots,          \* reportData.screenshots.comparable_screenshot_list
    resemble,             \* what compareImages yields for each screenshot pair
    min_diff_pixel_count, \* resemble.json: mdc_screenshot_test.min_diff_pixel_count
    shot,                 \* the mutable fields of every mdc.proto.Screenshot
    changed_screenshot_list,
    unchanged_screenshot_list,
    skipped_screenshot_list,
    removed_screenshot_list,
    added_screenshot_list,
    maps,                 \* the four *_screenshot_*_map fields of reportData.screenshots
    assigned,             \* which of the four map fields compareAllScreenshots has assigned
    task,                 \* where every compareOneScreenshot_ call stands
    allPromise,           \* the Promise.all of line 42
    pc,                   \* where compareAllScreenshots stands
    thrown,               \* the error compareAllScreenshots rejected with
    written,              \* diff images written to disk
    console,              \* what logComparisonResults_ printed
    \* CbtApi: the module-level promise and the calls of fetchAvailableDevices
    allBrowsersPromise,   \* 0 (unset) or the index in "promises" of the cached one
    promises,             \* one promise per request sent by sendRequest_
    calls,                \* the fetchAvailableDevices calls made so far
    \* compareVersions applied to a pair of strings
    versionA,
    versionB,
    compared,
    \* getMatchingCbtUserAgent_ applied to a catalog and a user agent
    allCbtDevices,
    userAgent,
    matched

diffVars == <<screenshots, resemble, min_diff_pixel_count, shot,
              changed_screenshot_list, unchanged_screenshot_list,
              skipped_screenshot_list, removed_screenshot_list,
              added_screenshot_list, maps, assigned, task, allPromise, pc,
              thrown, written, console>>

fetchVars == <<allBrowsersPromise, promises, calls>>
versionVars == <<versionA, versionB, compared>>
matchVars == <<allCbtDevices, userAgent, matched>>

vars == <<diffVars, fetchVars, versionVars, matchVars>>

\* ------------------------------------------------------------ ImageDiffer

\* user_agent.alias and html_file_path of the i-th screenshot of a batch.
Aliases == <<"desktop_windows_chrome@latest", "desktop_windows_firefox@latest">>
Pages   == <<"mdc-button/classes/baseline.html", "mdc-card/classes/baseline.html">>

AliasOf(i) == Aliases[((i - 1) % 2) + 1]
PageOf(i)  == Pages[(((i - 1) \div 2) % 2) + 1]

Screenshot(i) == [id |-> i, alias |-> AliasOf(i), html_file_path |-> PageOf(i)]

\* A number that is not an integer is kept exact, as numerator over denominator.
Rat(n, d) == [n |-> n, d |-> d]
RatTimesInt(r, k) == [n |-> r.n * k, d |-> r.d]
RatGeqInt(r, k) == r.n >= k * r.d
RatEq(r, s) == r.n * s.d = s.n * r.d

\* compareImages results: rawMisMatchPercentage and the diff image's bitmap size.
\* identical 10x10 images; 5 of 100 pixels differ; 2 of 4 pixels differ.
ResembleResults ==
    { [rawMisMatchPercentage |-> Rat(0, 100), width |-> 10, height |-> 10],
      [rawMisMatchPercentage |-> Rat(5, 100), width |-> 10, height |-> 10],
      [rawMisMatchPercentage |-> Rat(50, 100), width |-> 2, height |-> 2] }

\* Values of min_diff_pixel_count the configuration may hold.
Thresholds == {0, 3, 10}

\* The awaits of one comparison, in program order, then its two final states.
Stages == <<"readActual", "readExpected", "computeDiff", "decode", "write", "classify">>

MapNames == {"changed_screenshot_browser_map", "changed_screenshot_page_map",
             "unchanged_screenshot_browser_map", "unchanged_screenshot_page_map"}

EmptyMap == [k \in {} |-> <<>>]

\* Screenshots of the earlier phases of the run: not comparable, never diffed.
InitSkipped == <<101>>
InitRemoved == <<102>>
InitAdded   == <<103>>

Ids == 1..Len(screenshots)

analyzeComparisonResult_(r) ==
    LET diffPixelFraction == r.rawMisMatchPercentage
        diffPixelCount == RatTimesInt(RatTimesInt(diffPixelFraction, r.width), r.height)
    IN  [diffPixelFraction |-> diffPixelFraction, diffPixelCount |-> diffPixelCount]

\* Faulty variant: > instead of >=.
HasChangedStrictly(diffPixelCount, minCount) ==
    diffPixelCount.n > minCount * diffPixelCount.d

\* Line 169: diffPixelCount >= min_diff_pixel_count
HasChanged(diffPixelCount, minCount) == RatGeqInt(diffPixelCount, minCount)

createDiffImageFile_(i) == [relative_path |-> <<i, ".diff.png">>]

\* Faulty variant: has_changed decided by the fraction, as a percentage.
compareOneImageByFraction(i) ==
    LET a == analyzeComparisonResult_(resemble[i])
    IN  [diff_image_file |-> createDiffImageFile_(i),
         diff_pixel_count |-> a.diffPixelCount,
         diff_pixel_fraction |-> a.diffPixelFraction,
         has_changed |-> HasChanged(RatTimesInt(a.diffPixelFraction, 100),
                                    min_diff_pixel_count)]

\* The DiffImageResult compareOneImage creates once the diff image is written.
compareOneImage(i) ==
    LET a == analyzeComparisonResult_(resemble[i])
    IN  [diff_image_file |-> createDiffImageFile_(i),
         diff_pixel_count |-> a.diffPixelCount,
         diff_pixel_fraction |-> a.diffPixelFraction,
         has_changed |-> HasChanged(a.diffPixelCount, min_diff_pixel_count)]

\* Faulty variant: the key's list is created anew for every screenshot.
RECURSIVE GroupByOverwriting(_, _)
GroupByOverwriting(list, key) ==
    IF list = <<>> THEN EmptyMap
    ELSE LET front == GroupByOverwriting(SubSeq(list, 1, Len(list) - 1), key)
             s == list[Len(list)]
             k == key[s]
         IN  [x \in (DOMAIN front) \cup {k} |->
                 IF x = k THEN <<s>> ELSE front[x]]

\* Faulty variant: unshift instead of push.
RECURSIVE GroupByUnshift(_, _)
GroupByUnshift(list, key) ==
    IF list = <<>> THEN EmptyMap
    ELSE LET front == GroupByUnshift(SubSeq(list, 1, Len(list) - 1), key)
             s == list[Len(list)]
             k == key[s]
             old == IF k \in DOMAIN front THEN front[k] ELSE <<>>
         IN  [x \in (DOMAIN front) \cup {k} |->
                 IF x = k THEN <<s>> \o old ELSE front[x]]

RECURSIVE GroupBy(_, _)
\* forEach over the array: create the key's list on first use, then push.
GroupBy(list, key) ==
    IF list = <<>> THEN EmptyMap
    ELSE LET front == GroupBy(SubSeq(list, 1, Len(list) - 1), key)
             s == list[Len(list)]
             k == key[s]
             old == IF k \in DOMAIN front THEN front[k] ELSE <<>>
         IN  [x \in (DOMAIN front) \cup {k} |->
                 IF x = k THEN Append(old, s) ELSE front[x]]

\* The key of a screenshot is read off the screenshot itself.
Range(list) == {list[k] : k \in 1..Len(list)}

groupByBrowser_(screenshotArray) ==
    GroupBy(screenshotArray, [s \in Range(screenshotArray) |-> AliasOf(s)])

groupByPage_(screenshotArray) ==
    GroupBy(screenshotArray, [s \in Range(screenshotArray) |-> PageOf(s)])

logComparisonResults_ ==
    <<[title |-> "Skipped", screenshots |-> skipped_screenshot_list],
      [title |-> "Unchanged", screenshots |-> unchanged_screenshot_list],
      [title |-> "Removed", screenshots |-> removed_screenshot_list],
      [title |-> "Added", screenshots |-> added_screenshot_list],
      [title |-> "Changed", screenshots |-> changed_screenshot_list]>>

\* Faulty variant: fulfilled by the first element that is.
AllAfterAnyFulfil(newTask) ==
    IF allPromise.state = "pending" /\ \E j \in DOMAIN newTask : newTask[j] = "done"
    THEN [state |-> "fulfilled", reason |-> <<>>]
    ELSE allPromise

\* Promise.all: fulfilled once every element is, rejected by the first rejection.
AllAfterFulfil(newTask) ==
    IF allPromise.state = "pending" /\ \A j \in DOMAIN newTask : newTask[j] = "done"
    THEN [state |-> "fulfilled", reason |-> <<>>]
    ELSE allPromise

\* Faulty variant: a rejected comparison does not reject the batch.
AllIgnoringReject(err) == allPromise

AllAfterReject(err) ==
    IF allPromise.state = "pending"
    THEN [state |-> "rejected", reason |-> <<err>>]
    ELSE allPromise

InitDiff ==
    /\ \E n \in 0..MaxScreenshots :
          /\ screenshots = [i \in 1..n |-> Screenshot(i)]
          /\ resemble \in [1..n -> ResembleResults]
          /\ shot = [i \in 1..n |-> [capture_state |-> "CAPTURED",
                                     diff_image_result |-> <<>>]]
          /\ task = [i \in 1..n |-> "notStarted"]
    /\ min_diff_pixel_count \in Thresholds
    /\ changed_screenshot_list = <<>>
    /\ unchanged_screenshot_list = <<>>
    /\ skipped_screenshot_list = InitSkipped
    /\ removed_screenshot_list = InitRemoved
    /\ added_screenshot_list = InitAdded
    /\ maps = [m \in MapNames |-> EmptyMap]
    /\ assigned = {}
    /\ allPromise = [state |-> "none", reason |-> <<>>]
    /\ pc = "idle"
    /\ thrown = <<>>
    /\ written = {}
    /\ console = <<>>

\* Lines 37-44: every compareOneScreenshot_ runs up to its first await (the read
\* of the actual image) inside screenshots.map, then Promise.all is awaited.
compareAllScreenshots ==
    /\ pc = "idle"
    /\ pc' = "awaiting"
    /\ task' = [i \in Ids |-> "readActual"]
    /\ allPromise' = IF Ids = {} THEN [state |-> "fulfilled", reason |-> <<>>]
                     ELSE [state |-> "pending", reason |-> <<>>]
    /\ console' = Append(console, <<"Diffing", Len(screenshots)>>)
    /\ UNCHANGED <<fetchVars, versionVars, matchVars>>
    /\ UNCHANGED <<screenshots, resemble, min_diff_pixel_count, shot,
                   changed_screenshot_list, unchanged_screenshot_list,
                   skipped_screenshot_list, removed_screenshot_list,
                   added_screenshot_list, maps, assigned, thrown, written>>

\* Faulty variant: the write of line 163 is not awaited.
NextStageSkippingWrite(s) ==
    IF s = "decode" THEN 5 ELSE CHOOSE k \in 1..Len(Stages) : Stages[k] = s

\* The place of an await in the program order of compareOneImage.
NextStage(s) == CHOOSE k \in 1..Len(Stages) : Stages[k] = s

\* An await of compareOneImage other than the last settles with a value.
AwaitResolves(i) ==
    /\ task[i] \in {"readActual", "readExpected", "computeDiff", "decode"}
    /\ task' = [task EXCEPT ![i] = Stages[NextStage(task[i]) + 1]]
    /\ UNCHANGED <<fetchVars, versionVars, matchVars>>
    /\ UNCHANGED <<screenshots, resemble, min_diff_pixel_count, shot,
                   changed_screenshot_list, unchanged_screenshot_list,
                   skipped_screenshot_list, removed_screenshot_list,
                   added_screenshot_list, maps, assigned, allPromise, pc,
                   thrown, written, console>>

\* Line 163 settles: the diff image is on disk, compareOneImage returns its
\* DiffImageResult and compareOneScreenshot_ is scheduled to resume.
WriteResolves(i) ==
    /\ task[i] = "write"
    /\ task' = [task EXCEPT ![i] = "classify"]
    /\ written' = written \cup {i}
    /\ UNCHANGED <<fetchVars, versionVars, matchVars>>
    /\ UNCHANGED <<screenshots, resemble, min_diff_pixel_count, shot,
                   changed_screenshot_list, unchanged_screenshot_list,
                   skipped_screenshot_list, removed_screenshot_list,
                   added_screenshot_list, maps, assigned, allPromise, pc,
                   thrown, console>>

\* Faulty variant: the branches of lines 77-81 are swapped.
PushVerdictInverted(hasChanged, i) ==
    [changed |-> IF hasChanged THEN changed_screenshot_list
                 ELSE Append(changed_screenshot_list, i),
     unchanged |-> IF hasChanged THEN Append(unchanged_screenshot_list, i)
                   ELSE unchanged_screenshot_list]

\* Faulty variant: the else of line 79 is lost.
PushVerdictToBoth(hasChanged, i) ==
    [changed |-> Append(changed_screenshot_list, i),
     unchanged |-> Append(unchanged_screenshot_list, i)]

\* Variant that reports nothing once the batch is rejected.
PushVerdictUnlessAborted(hasChanged, i) ==
    [changed |-> IF hasChanged /\ allPromise.state = "pending"
                 THEN Append(changed_screenshot_list, i)
                 ELSE changed_screenshot_list,
     unchanged |-> IF ~hasChanged /\ allPromise.state = "pending"
                   THEN Append(unchanged_screenshot_list, i)
                   ELSE unchanged_screenshot_list]

\* Lines 77-81: the two lists after the push.
PushVerdict(hasChanged, i) ==
    [changed |-> IF hasChanged THEN Append(changed_screenshot_list, i)
                 ELSE changed_screenshot_list,
     unchanged |-> IF hasChanged THEN unchanged_screenshot_list
                   ELSE Append(unchanged_screenshot_list, i)]

\* Lines 73-81, whatever has become of the batch in the meantime.
compareOneScreenshot_(i) ==
    LET diffImageResult == compareOneImage(i)
        newTask == [task EXCEPT ![i] = "done"]
    IN  /\ task[i] = "classify"
        /\ shot' = [shot EXCEPT ![i] = [capture_state |-> "DIFFED",
                                        diff_image_result |-> <<diffImageResult>>]]
        /\ changed_screenshot_list' = PushVerdict(diffImageResult.has_changed, i).changed
        /\ unchanged_screenshot_list' = PushVerdict(diffImageResult.has_changed, i).unchanged
        /\ task' = newTask
        /\ allPromise' = AllAfterFulfil(newTask)
        /\ UNCHANGED <<fetchVars, versionVars, matchVars>>
        /\ UNCHANGED <<screenshots, resemble, min_diff_pixel_count,
                       skipped_screenshot_list, removed_screenshot_list,
                       added_screenshot_list, maps, assigned, pc, thrown,
                       written, console>>

\* A read, the pixel comparison, the decode (or the mkdirp after it) or the
\* write fails: the comparison rejects, and with it the Promise.all if pending.
AwaitRejects(i) ==
    /\ task[i] \in {"readActual", "readExpected", "computeDiff", "decode", "write"}
    /\ task' = [task EXCEPT ![i] = "failed"]
    /\ allPromise' = AllAfterReject([screenshot |-> i])
    /\ UNCHANGED <<fetchVars, versionVars, matchVars>>
    /\ UNCHANGED <<screenshots, resemble, min_diff_pixel_count, shot,
                   changed_screenshot_list, unchanged_screenshot_list,
                   skipped_screenshot_list, removed_screenshot_list,
                   added_screenshot_list, maps, assigned, pc, thrown, written,
                   console>>

\* Lines 46-56, after the await of line 42 yields.
GroupAndLog ==
    /\ pc = "awaiting"
    /\ allPromise.state = "fulfilled"
    /\ maps' = [m \in MapNames |->
                  CASE m = "changed_screenshot_browser_map" ->
                         groupByBrowser_(changed_screenshot_list)
                    [] m = "changed_screenshot_page_map" ->
                         groupByPage_(changed_screenshot_list)
                    [] m = "unchanged_screenshot_browser_map" ->
                         groupByBrowser_(unchanged_screenshot_list)
                    [] OTHER -> groupByPage_(unchanged_screenshot_list)]
    /\ assigned' = MapNames
    /\ console' = Append(console, logComparisonResults_)
    /\ pc' = "returned"
    /\ UNCHANGED <<fetchVars, versionVars, matchVars>>
    /\ UNCHANGED <<screenshots, resemble, min_diff_pixel_count, shot,
                   changed_screenshot_list, unchanged_screenshot_list,
                   skipped_screenshot_list, removed_screenshot_list,
                   added_screenshot_list, task, allPromise, thrown, written>>

\* The await of line 42 throws the Promise.all's rejection reason.
AwaitAllThrows ==
    /\ pc = "awaiting"
    /\ allPromise.state = "rejected"
    /\ pc' = "threw"
    /\ thrown' = allPromise.reason
    /\ UNCHANGED <<fetchVars, versionVars, matchVars>>
    /\ UNCHANGED <<screenshots, resemble, min_diff_pixel_count, shot,
                   changed_screenshot_list, unchanged_screenshot_list,
                   skipped_screenshot_list, removed_screenshot_list,
                   added_screenshot_list, maps, assigned, task, allPromise,
                   written, console>>

NextDiff ==
    \/ compareAllScreenshots
    \/ \E i \in Ids : AwaitResolves(i)
    \/ \E i \in Ids : WriteResolves(i)
    \/ \E i \in Ids : compareOneScreenshot_(i)
    \/ \E i \in Ids : AwaitRejects(i)
    \/ GroupAndLog
    \/ AwaitAllThrows

\* The parts a specification does not exercise stay as they are here.
FetchIdle == allBrowsersPromise = 0 /\ promises = <<>> /\ calls = <<>>
VersionIdle == versionA = <<>> /\ versionB = <<>> /\ compared = <<>>
MatchIdle == allCbtDevices = <<>> /\ userAgent = <<>> /\ matched = <<>>

Init == InitDiff /\ FetchIdle /\ VersionIdle /\ MatchIdle
Next == NextDiff
Spec == Init /\ [][Next]_vars

\* ------------------------------------------- compareVersions (CbtApi)

\* A string is the sequence of its characters; the words the patterns of
\* parseVersionNumber look for ("Windows", "Service Pack", ...) are one
\* element each, as is any other letter ("x").
Digits == <<"0", "1", "2", "3", "4", "5", "6", "7", "8", "9">>
IsDigit(c) == \E k \in 1..10 : Digits[k] = c
DigitValue(c) == (CHOOSE k \in 1..10 : Digits[k] = c) - 1

\* A JavaScript number: an integer or NaN.
Num(v) == [nan |-> FALSE, v |-> v]
NaN == [nan |-> TRUE, v |-> 0]

\* a === b on numbers
StrictEquals(a, b) == ~a.nan /\ ~b.nan /\ a.v = b.v
\* a || 0
OrZero(a) == IF a.nan \/ a.v = 0 THEN Num(0) ELSE a
\* a - b
Minus(a, b) == IF a.nan \/ b.nan THEN NaN ELSE Num(a.v - b.v)

StartsWith(str, pre) ==
    Len(pre) <= Len(str) /\ SubSeq(str, 1, Len(pre)) = pre
EndsWith(str, suf) ==
    Len(suf) <= Len(str) /\ SubSeq(str, Len(str) - Len(suf) + 1, Len(str)) = suf
DropFirst(str, k) == SubSeq(str, k + 1, Len(str))
DropLast(str, k) == SubSeq(str, 1, Len(str) - k)

\* .replace(/ <word>$/i, '')
StripSuffix(str, word) ==
    IF EndsWith(str, <<" ", word>>) THEN DropLast(str, 2) ELSE str

\* .replace(/ Service Pack \d$/i, '')
StripServicePack(str) ==
    IF /\ Len(str) >= 4
       /\ IsDigit(str[Len(str)])
       /\ EndsWith(DropLast(str, 1), <<" ", "Service Pack", " ">>)
    THEN DropLast(str, 4) ELSE str

\* One optional space after a matched prefix of length k.
SkipSpace(str, k) ==
    IF Len(str) > k /\ str[k + 1] = " " THEN k + 1 ELSE k

\* .replace(/^(?:Windows )?<word> ?/i, with)
ReplaceWindowsName(str, word, with) ==
    IF StartsWith(str, <<"Windows", " ", word>>)
    THEN with \o DropFirst(str, SkipSpace(str, 3))
    ELSE IF StartsWith(str, <<word>>)
    THEN with \o DropFirst(str, SkipSpace(str, 1))
    ELSE str

\* .replace(/^(?:a|b|...) ?/i, '')
StripPrefixWord(str, words) ==
    IF str # <<>> /\ str[1] \in words
    THEN DropFirst(str, SkipSpace(str, 1))
    ELSE str

RECURSIVE TrailingZeros(_)
\* How many "0" end the string.
TrailingZeros(str) ==
    IF str # <<>> /\ str[Len(str)] = "0"
    THEN 1 + TrailingZeros(DropLast(str, 1)) ELSE 0

RECURSIVE StripZeroGroups(_)
\* .replace(/(?:\.0+)+$/g, '')
StripZeroGroups(str) ==
    LET z == TrailingZeros(str)
    IN  IF z >= 1 /\ Len(str) > z /\ str[Len(str) - z] = "."
        THEN StripZeroGroups(DropLast(str, z + 1))
        ELSE str

RECURSIVE Split(_)
\* .split('.')
Split(str) ==
    IF \A k \in 1..Len(str) : str[k] # "."
    THEN <<str>>
    ELSE LET k == CHOOSE j \in 1..Len(str) :
                     str[j] = "." /\ \A h \in 1..(j - 1) : str[h] # "."
         IN  <<SubSeq(str, 1, k - 1)>> \o Split(DropFirst(str, k))

RECURSIVE Trim(_)
Trim(str) ==
    IF str # <<>> /\ str[1] = " " THEN Trim(DropFirst(str, 1))
    ELSE IF str # <<>> /\ str[Len(str)] = " " THEN Trim(DropLast(str, 1))
    ELSE str

RECURSIVE Decimal(_)
Decimal(str) ==
    IF str = <<>> THEN 0
    ELSE 10 * Decimal(DropLast(str, 1)) + DigitValue(str[Len(str)])

\* Number(segment): whitespace is trimmed, the empty string is 0, decimal
\* digits are their value, anything else is NaN.
ToNumber(segment) ==
    LET t == Trim(segment)
    IN  IF \A k \in 1..Len(t) : IsDigit(t[k]) THEN Num(Decimal(t)) ELSE NaN

Normalize(version) ==
    LET s1 == StripSuffix(version, "64-bit")
        s2 == StripSuffix(s1, "Beta")
        s3 == StripSuffix(s2, "Preview")
        s4 == StripSuffix(s3, "Home")
        s5 == StripServicePack(s4)
        s6 == ReplaceWindowsName(s5, "XP", <<"5", ".", "1">>)
        s7 == ReplaceWindowsName(s6, "Vista", <<"6", ".", "0">>)
        s8 == StripPrefixWord(s7, {"Windows", "Win"})
        s9 == StripPrefixWord(s8, {"Mac OS X", "Mac OSX", "MacOS", "OSX", "Mac"})
    IN  StripZeroGroups(s9)

parseVersionNumber(version) ==
    LET segments == Split(Normalize(version))
    IN  [k \in 1..Len(segments) |-> ToNumber(segments[k])]

Max(a, b) == IF a >= b THEN a ELSE b

\* Line 428: v1.forEach((num, idx) => v2[idx] = v2[idx] || 0)
PadSecond(v1, v2) ==
    [idx \in 1..Max(Len(v1), Len(v2)) |->
        IF idx <= Len(v1)
        THEN (IF idx <= Len(v2) THEN OrZero(v2[idx]) ELSE Num(0))
        ELSE v2[idx]]

\* Line 429: v2.forEach((num, idx) => v1[idx] = v1[idx] || 0)
PadFirst(v1, v2) ==
    [idx \in 1..Max(Len(v1), Len(v2)) |->
        IF idx <= Len(v2)
        THEN (IF idx <= Len(v1) THEN OrZero(v1[idx]) ELSE Num(0))
        ELSE v1[idx]]

RECURSIVE FirstNonZero(_)
\* deltas.filter((num) => num !== 0)[0] || 0
FirstNonZero(deltas) ==
    IF deltas = <<>> THEN 0
    ELSE IF StrictEquals(deltas[1], Num(0)) THEN FirstNonZero(Tail(deltas))
    ELSE OrZero(deltas[1]).v

compareVersions(version1, version2) ==
    LET v1 == parseVersionNumber(version1)
        v2 == parseVersionNumber(version2)
        p2 == PadSecond(v1, v2)
        p1 == PadFirst(v1, p2)
        deltas == [idx \in 1..Len(p1) |-> Minus(p1[idx], p2[idx])]
    IN  FirstNonZero(deltas)


\* Strings compared: every string of up to MaxVersionLength characters over
\* VersionAlphabet, and version strings of the kinds the catalog holds.
VersionAlphabet == {"0", "6", ".", "x"}

GeneratedVersions ==
    UNION {[1..n -> VersionAlphabet] : n \in 0..MaxVersionLength}

CatalogVersions ==
    { <<"6">>,
      <<"6", ".", "0", ".", "0">>,
      <<"6", ".", "0", ".", "2">>,
      <<"6", ".", "x", ".", "2">>,
      <<"6", "4">>,
      <<"6", "4", ".", "0", ".", "3", "2", "8", "2">>,
      <<"6", "3", ".", "0", ".", "1">>,
      <<"6", "4", " ", "64-bit">>,
      <<"1", "1", " ", "Preview">>,
      <<"1", "4", " ", "Beta">>,
      <<"Windows", " ", "1", "0">>,
      <<"Windows", " ", "1", "0", " ", "Home">>,
      <<"Win", "7">>,
      <<"Windows", " ", "7", " ", "Service Pack", " ", "1">>,
      <<"Windows", " ", "XP", " ", "Service Pack", " ", "3">>,
      <<"XP">>,
      <<"Vista">>,
      <<"Mac OSX", " ", "1", "0", ".", "1", "3">>,
      <<"OSX", " ", "1", "0", ".", "1", "3", ".", "0">> }

VersionStrings == GeneratedVersions \cup CatalogVersions

InitVersion ==
    /\ versionA \in VersionStrings
    /\ versionB \in VersionStrings
    /\ compared = <<>>

\* The comparator applied to the pair, both ways round, and to versionA itself.
CompareVersions ==
    /\ compared = <<>>
    /\ compared' = <<[forward |-> compareVersions(versionA, versionB),
                      backward |-> compareVersions(versionB, versionA),
                      self |-> compareVersions(versionA, versionA)]>>
    /\ UNCHANGED <<versionA, versionB>>
    /\ UNCHANGED <<diffVars, fetchVars, matchVars>>

DiffIdle ==
    /\ screenshots = <<>> /\ resemble = <<>> /\ min_diff_pixel_count = 0
    /\ shot = <<>> /\ task = <<>>
    /\ changed_screenshot_list = <<>> /\ unchanged_screenshot_list = <<>>
    /\ skipped_screenshot_list = <<>> /\ removed_screenshot_list = <<>>
    /\ added_screenshot_list = <<>>
    /\ maps = <<>> /\ assigned = {}
    /\ allPromise = <<>> /\ pc = "idle" /\ thrown = <<>>
    /\ written = {} /\ console = <<>>

NextVersion == CompareVersions
VersionInit == InitVersion /\ DiffIdle /\ FetchIdle /\ MatchIdle
SpecVersion == VersionInit /\ [][NextVersion]_vars

\* ---------------------------------- getMatchingCbtUserAgent_ (CbtApi)

\* A lookup in an object literal: the value, or undefined.
Undefined == [defined |-> FALSE, values |-> {}]
Lookup(table, key) ==
    IF key \in DOMAIN table THEN [defined |-> TRUE, values |-> table[key]]
    ELSE Undefined

formFactorMap ==
    [k \in {"DESKTOP", "MOBILE"} |->
        CASE k = "DESKTOP" -> {"desktop"}
          [] k = "MOBILE" -> {"mobile"}]

osVendorMap ==
    [k \in {"ANDROID", "IOS", "MAC", "WINDOWS"} |->
        CASE k = "ANDROID" -> {"Android"}
          [] k = "IOS" -> {"iPhone", "iPad"}
          [] k = "MAC" -> {"Mac"}
          [] k = "WINDOWS" -> {"Windows"}]

browserVendorMap ==
    [k \in {"CHROME", "EDGE", "FIREFOX", "IE", "SAFARI"} |->
        CASE k = "CHROME" -> {"Chrome", "Chrome Mobile"}
          [] k = "EDGE" -> {"Microsoft Edge"}
          [] k = "FIREFOX" -> {"Firefox"}
          [] k = "IE" -> {"Internet Explorer"}
          [] k = "SAFARI" -> {"Safari", "Mobile Safari"}]

requiredFormFactors(ua) == Lookup(formFactorMap, ua.form_factor_type)
requiredOsVendors(ua) == Lookup(osVendorMap, ua.os_vendor_type)
requiredBrowserVendors(ua) == Lookup(browserVendorMap, ua.browser_vendor_type)

\* api_name + 'x64'
X64(api_name) == Append(api_name, "x64")

\* Faulty variant: only the first device is looked at.
ApiNamesOfFirstDevice(devices) ==
    IF devices = <<>> THEN {}
    ELSE {devices[1].browsers[b].api_name : b \in 1..Len(devices[1].browsers)}

\* Lines 379-385
allBrowserApiNames(devices) ==
    UNION {{devices[d].browsers[b].api_name : b \in 1..Len(devices[d].browsers)} :
              d \in 1..Len(devices)}

\* Faulty variant: the OS vendor is not looked at.
isMatchingFormFactor(ua, cbtDevice) ==
    cbtDevice.device \in requiredFormFactors(ua).values

\* Lines 391-393
isMatchingDevice(ua, cbtDevice) ==
    /\ cbtDevice.device \in requiredFormFactors(ua).values
    /\ cbtDevice.type \in requiredOsVendors(ua).values

\* An .includes on an undefined lookup is a TypeError: lines 392, 393 and 400
\* are reached for the first device, for a device of a required form factor,
\* and for a browser of a matching device.
ThrowsTypeError(devices, ua) ==
    \/ ~requiredFormFactors(ua).defined /\ devices # <<>>
    \/ /\ requiredFormFactors(ua).defined
       /\ ~requiredOsVendors(ua).defined
       /\ \E d \in 1..Len(devices) :
             devices[d].device \in requiredFormFactors(ua).values
    \/ /\ requiredFormFactors(ua).defined
       /\ requiredOsVendors(ua).defined
       /\ ~requiredBrowserVendors(ua).defined
       /\ \E d \in 1..Len(devices) :
             isMatchingDevice(ua, devices[d]) /\ devices[d].browsers # <<>>

\* Lines 400-407: the browser is pushed.
IsCandidate(devices, ua, d, b) ==
    /\ devices[d].browsers[b].type \in requiredBrowserVendors(ua).values
    /\ X64(devices[d].browsers[b].api_name) \notin allBrowserApiNames(devices)

RECURSIVE BrowsersFrom(_, _, _, _)
\* Lines 399-413, from browser b of device d on.
BrowsersFrom(devices, ua, d, b) ==
    IF b > Len(devices[d].browsers) THEN <<>>
    ELSE (IF IsCandidate(devices, ua, d, b)
          THEN <<[device |-> d, browser |-> b]>> ELSE <<>>)
         \o BrowsersFrom(devices, ua, d, b + 1)

RECURSIVE DevicesFrom(_, _, _)
\* Lines 390-414, from device d on. A pair names its device and browser by
\* their places in the catalog.
DevicesFrom(devices, ua, d) ==
    IF d > Len(devices) THEN <<>>
    ELSE (IF isMatchingDevice(ua, devices[d])
          THEN BrowsersFrom(devices, ua, d, 1) ELSE <<>>)
         \o DevicesFrom(devices, ua, d + 1)

\* matchingCbtUserAgents as line 414 leaves it.
FilterCandidates(devices, ua) == DevicesFrom(devices, ua, 1)

DeviceOf(devices, pair) == devices[pair.device]
BrowserOf(devices, pair) == devices[pair.device].browsers[pair.browser]

\* Lines 459-465: x || y || z
SortComparator(devices, a, b) ==
    LET byDevice == compareVersions(DeviceOf(devices, a).version,
                                    DeviceOf(devices, b).version)
        byBrowser == compareVersions(BrowserOf(devices, a).version,
                                     BrowserOf(devices, b).version)
    IN  IF byDevice # 0 THEN byDevice
        ELSE IF byBrowser # 0 THEN byBrowser
        ELSE DeviceOf(devices, a).sort_order - DeviceOf(devices, b).sort_order

RECURSIVE Insert(_, _, _)
\* The element moves left past every element that compares greater than it.
Insert(devices, sorted, x) ==
    IF sorted # <<>> /\ SortComparator(devices, sorted[Len(sorted)], x) > 0
    THEN Append(Insert(devices, SubSeq(sorted, 1, Len(sorted) - 1), x),
                sorted[Len(sorted)])
    ELSE Append(sorted, x)

RECURSIVE Sort(_, _)
\* Array.prototype.sort: stable, here by insertion.
Sort(devices, list) ==
    IF list = <<>> THEN <<>>
    ELSE Insert(devices, Sort(devices, SubSeq(list, 1, Len(list) - 1)),
                list[Len(list)])

Reverse(list) == [k \in 1..Len(list) |-> list[Len(list) + 1 - k]]

\* matchingCbtUserAgents after lines 458-467.
RankedCandidates(devices, ua) ==
    Reverse(Sort(devices, FilterCandidates(devices, ua)))

\* Faulty variant: curBrowserVersion.every(...)
EveryCurrentSegmentEquals(required, cur) ==
    \A index \in 1..Len(cur) :
        /\ index <= Len(required)
        /\ StrictEquals(required[index], cur[index])

\* Line 474: requiredBrowserVersion.every(...)
EveryRequiredSegmentEquals(required, cur) ==
    \A index \in 1..Len(required) :
        /\ index <= Len(cur)
        /\ StrictEquals(required[index], cur[index])

\* Lines 472-474: the callback of find.
IsExactMatch(devices, ua, pair) ==
    LET curBrowserVersion == parseVersionNumber(BrowserOf(devices, pair).version)
        requiredBrowserVersion == parseVersionNumber(ua.browser_version_value)
    IN  EveryRequiredSegmentEquals(requiredBrowserVersion, curBrowserVersion)

\* Array.prototype.find and an index out of range give undefined: << >>.
Find(list, hits) ==
    IF \E k \in 1..Len(list) : list[k] \in hits
    THEN <<list[CHOOSE k \in 1..Len(list) :
                   list[k] \in hits /\ \A h \in 1..(k - 1) : list[h] \notin hits]>>
    ELSE <<>>

At(list, index) == IF index + 1 <= Len(list) THEN <<list[index + 1]>> ELSE <<>>

\* Faulty variant: PREVIOUS falls back to the first candidate.
SelectClampingIndex(devices, ua, ranked) ==
    IF ua.browser_version_type = "EXACT"
    THEN Find(ranked, {p \in Range(ranked) : IsExactMatch(devices, ua, p)})
    ELSE IF ua.browser_version_type = "PREVIOUS"
    THEN (IF Len(ranked) >= 2 THEN At(ranked, 1) ELSE At(ranked, 0))
    ELSE At(ranked, 0)

\* Lines 469-484
SelectByVersionType(devices, ua, ranked) ==
    IF ua.browser_version_type = "EXACT"
    THEN Find(ranked, {p \in Range(ranked) : IsExactMatch(devices, ua, p)})
    ELSE IF ua.browser_version_type = "PREVIOUS"
    THEN At(ranked, 1)
    ELSE At(ranked, 0)

\* What the call settles with: a TypeError, or the pair found (or undefined).
getMatchingCbtUserAgent_(devices, ua) ==
    IF ThrowsTypeError(devices, ua)
    THEN [threw |-> TRUE, value |-> <<>>]
    ELSE [threw |-> FALSE,
          value |-> SelectByVersionType(devices, ua, RankedCandidates(devices, ua))]

\* Devices and browsers of the kinds GET /selenium/browsers lists.
Browser(api_name, type, version) ==
    [api_name |-> api_name, type |-> type, version |-> version]

Chrome49 == Browser(<<"Chrome49">>, "Chrome", <<"4", "9">>)
Chrome63 == Browser(<<"Chrome63">>, "Chrome", <<"6", "3", ".", "0", ".", "1">>)
Chrome63x64 == Browser(<<"Chrome63", "x64">>, "Chrome",
                       <<"6", "3", ".", "0", ".", "1">>)
Chrome64 == Browser(<<"Chrome64">>, "Chrome", <<"6", "4">>)
Chrome64Full == Browser(<<"Chrome64">>, "Chrome",
                        <<"6", "4", ".", "0", ".", "3", "2", "8", "2">>)
Chrome64x64 == Browser(<<"Chrome64", "x64">>, "Chrome",
                       <<"6", "4", ".", "0", ".", "3", "2", "8", "2">>)
FF58 == Browser(<<"FF58">>, "Firefox", <<"5", "8">>)
FF58x64 == Browser(<<"FF58", "x64">>, "Firefox", <<"5", "8", " ", "64-bit">>)
Safari11 == Browser(<<"Safari11">>, "Safari", <<"1", "1">>)
MblChrome64 == Browser(<<"MblChrome64">>, "Chrome Mobile", <<"6", "4">>)
\* A point release, and a version with a segment that is not a number.
FF5801 == Browser(<<"FF5801">>, "Firefox", <<"5", "8", ".", "0", ".", "1">>)
FF58Dev == Browser(<<"FF58Dev">>, "Firefox", <<"5", "8", ".", "x", ".", "2">>)

DevicePool ==
    << [api_name |-> "Win10", device |-> "desktop", type |-> "Windows",
        version |-> <<"Windows", " ", "1", "0">>, sort_order |-> 4,
        browsers |-> <<Chrome63, FF58>>],
       [api_name |-> "Win7", device |-> "desktop", type |-> "Windows",
        version |-> <<"Windows", " ", "7">>, sort_order |-> 2,
        browsers |-> <<Chrome64Full, Chrome64x64>>],
       [api_name |-> "Win7x64", device |-> "desktop", type |-> "Windows",
        version |-> <<"Windows", " ", "7", " ", "64-bit">>, sort_order |-> 3,
        browsers |-> <<Chrome64, FF58x64>>],
       [api_name |-> "WinXP", device |-> "desktop", type |-> "Windows",
        version |-> <<"Windows", " ", "XP", " ", "Service Pack", " ", "3">>,
        sort_order |-> 1,
        browsers |-> <<Chrome49, FF58>>],
       [api_name |-> "Mac10.13", device |-> "desktop", type |-> "Mac",
        version |-> <<"Mac OSX", " ", "1", "0", ".", "1", "3">>, sort_order |-> 5,
        browsers |-> <<Chrome63x64, Safari11>>],
       [api_name |-> "Win10-E17", device |-> "desktop", type |-> "Windows",
        version |-> <<"Windows", " ", "1", "0", " ", "Home">>, sort_order |-> 0,
        browsers |-> <<FF58Dev, FF5801>>],
       [api_name |-> "Nexus6P", device |-> "mobile", type |-> "Android",
        version |-> <<"7", ".", "0">>, sort_order |-> 1,
        browsers |-> <<MblChrome64>>] >>

IsInjective(f) == \A a, b \in DOMAIN f : f[a] = f[b] => a = b

\* Catalogs: up to MaxDevices different devices of the pool, in any order.
Catalogs ==
    { [k \in DOMAIN choice |-> DevicePool[choice[k]]] :
        choice \in { c \in UNION {[1..n -> DOMAIN DevicePool] : n \in 0..MaxDevices} :
                        IsInjective(c) } }

\* "UNKNOWN" is an enum value the lookup tables have no entry for.
VersionTargets ==
    { <<"6", "4">>,
      <<"6", "3", ".", "0">>,
      <<"6", "4", ".", "0", ".", "3", "2", "8", "2", ".", "1">>,
      <<"6", "x">> }

UserAgents ==
    { [form_factor_type |-> f, os_vendor_type |-> o, browser_vendor_type |-> b,
       browser_version_type |-> t.type, browser_version_value |-> t.value] :
        f \in {"DESKTOP", "MOBILE", "UNKNOWN"},
        o \in {"WINDOWS", "MAC", "ANDROID", "UNKNOWN"},
        b \in {"CHROME", "FIREFOX", "UNKNOWN"},
        t \in {[type |-> "EXACT", value |-> v] : v \in VersionTargets}
              \cup {[type |-> x, value |-> <<>>] : x \in {"PREVIOUS", "LATEST", "UNKNOWN"}} }

InitMatch ==
    /\ allCbtDevices \in Catalogs
    /\ userAgent \in UserAgents
    /\ matched = <<>>

\* Faulty variant: reverse() is applied to the catalog.
CatalogReversedInPlace(devices, ua) == Reverse(devices)

\* The catalog array after a call. Lines 381-476 only read allCbtDevices and
\* its entries: the array pushed to, sorted and reversed in place is
\* matchingCbtUserAgents (line 388), and compareVersions pads the arrays that
\* parseVersionNumber has just created.
CatalogAfterResolve(devices, ua) == devices

\* One resolution, the catalog fetched; every caller is handed the one array
\* the memoized promise holds.
ResolveUserAgent ==
    /\ Len(matched) < MaxResolutions
    /\ matched' = Append(matched, getMatchingCbtUserAgent_(allCbtDevices, userAgent))
    /\ allCbtDevices' = CatalogAfterResolve(allCbtDevices, userAgent)
    /\ UNCHANGED userAgent
    /\ UNCHANGED <<diffVars, fetchVars, versionVars>>

NextMatch == ResolveUserAgent
MatchInit == InitMatch /\ DiffIdle /\ FetchIdle /\ VersionIdle
SpecMatch == MatchInit /\ [][NextMatch]_vars

\* ------------------------------------------ fetchAvailableDevices (CbtApi)

CbtApiInstances == {"cbtApi1", "cbtApi2"}

\* What the request may answer with.
FetchedCatalogs == {<<DevicePool[1]>>, <<DevicePool[1], DevicePool[2]>>}

\* Who calls fetchAvailableDevices: a caller of the method itself, or
\* getMatchingCbtUserAgent_ at line 353, resolving FetchingUserAgent.
Callers == {"fetchAvailableDevices", "getMatchingCbtUserAgent_"}

FetchingUserAgent ==
    [form_factor_type |-> "DESKTOP", os_vendor_type |-> "WINDOWS",
     browser_vendor_type |-> "CHROME", browser_version_type |-> "LATEST",
     browser_version_value |-> <<>>]

\* Faulty variant: a rejected promise is not reused.
MemoizedUnlessRejected ==
    allBrowsersPromise # 0 /\ promises[allBrowsersPromise].state # "rejected"

\* Faulty variant: the cached promise is not looked at.
NeverMemoized == FALSE

\* Line 305: if (allBrowsersPromise)
Memoized == allBrowsersPromise # 0

PromiseState(p) == IF p = 0 THEN "unset" ELSE promises[p].state

InitFetch ==
    /\ allBrowsersPromise = 0
    /\ promises = <<>>
    /\ calls = <<>>

\* The call as it stands when fetchAvailableDevices has returned promise p.
Call(instance, caller, p) ==
    [instance |-> instance, caller |-> caller,
     found |-> PromiseState(allBrowsersPromise),
     promise |-> p, settled |-> <<>>, resolved |-> <<>>]

\* Lines 304-314. The call runs to its return without a break; the promise it
\* returns follows the one it was resolved with.
fetchAvailableDevices(instance, caller) ==
    /\ Len(calls) < MaxCalls
    /\ IF Memoized
       THEN /\ calls' = Append(calls, Call(instance, caller, allBrowsersPromise))
            /\ UNCHANGED <<allBrowsersPromise, promises>>
       ELSE /\ promises' = Append(promises, [state |-> "pending", value |-> <<>>])
            /\ allBrowsersPromise' = Len(promises) + 1
            /\ calls' = Append(calls, Call(instance, caller, Len(promises) + 1))
    /\ UNCHANGED <<diffVars, versionVars, matchVars>>

\* Lines 351-485 once the await of line 353 yields: the rejection is thrown on
\* to the caller, a catalog is resolved against.
ResolutionAfterFetch(promise) ==
    IF promise.state = "rejected"
    THEN [state |-> "rejected", value |-> promise.value]
    ELSE LET r == getMatchingCbtUserAgent_(promise.value, FetchingUserAgent)
         IN  IF r.threw THEN [state |-> "rejected", value |-> <<"TypeError">>]
             ELSE [state |-> "fulfilled", value |-> r.value]

\* Lines 494-505: the request of sendRequest_ is answered.
RequestSucceeds(p, devices) ==
    /\ promises[p].state = "pending"
    /\ promises' = [promises EXCEPT ![p] = [state |-> "fulfilled", value |-> devices]]
    /\ UNCHANGED <<allBrowsersPromise, calls>>
    /\ UNCHANGED <<diffVars, versionVars, matchVars>>

RequestFails(p) ==
    /\ promises[p].state = "pending"
    /\ promises' = [promises EXCEPT ![p] = [state |-> "rejected", value |-> <<"error", p>>]]
    /\ UNCHANGED <<allBrowsersPromise, calls>>
    /\ UNCHANGED <<diffVars, versionVars, matchVars>>

\* The promise a call returned settles as the one it follows, and with it the
\* resolution that awaits it.
CallSettles(c) ==
    /\ calls[c].settled = <<>>
    /\ promises[calls[c].promise].state # "pending"
    /\ calls' = [calls EXCEPT
                   ![c].settled = <<promises[calls[c].promise]>>,
                   ![c].resolved =
                       IF calls[c].caller = "getMatchingCbtUserAgent_"
                       THEN <<ResolutionAfterFetch(promises[calls[c].promise])>>
                       ELSE <<>>]
    /\ UNCHANGED <<allBrowsersPromise, promises>>
    /\ UNCHANGED <<diffVars, versionVars, matchVars>>

NextFetch ==
    \/ \E instance \in CbtApiInstances, caller \in Callers :
          fetchAvailableDevices(instance, caller)
    \/ \E p \in DOMAIN promises, devices \in FetchedCatalogs : RequestSucceeds(p, devices)
    \/ \E p \in DOMAIN promises : RequestFails(p)
    \/ \E c \in DOMAIN calls : CallSettles(c)

FetchInit == InitFetch /\ DiffIdle /\ VersionIdle /\ MatchIdle
SpecFetch == FetchInit /\ [][NextFetch]_vars

\* ------------------------------------------------- claims on ImageDiffer

Occurrences(list, x) == Cardinality({k \in 1..Len(list) : list[k] = x})

DiffResultOf(i) == shot[i].diff_image_result[1]

\* C1: once compareAllScreenshots has returned, every screenshot of the input
\* list occurs exactly once across the changed and the unchanged list (none
\* omitted, none twice, none in both, nothing else in them), and the skipped,
\* removed and added lists are as they were.
C1_EveryScreenshotOnce ==
    pc = "returned" =>
        /\ \A i \in Ids :
              Occurrences(changed_screenshot_list, i)
                + Occurrences(unchanged_screenshot_list, i) = 1
        /\ Len(changed_screenshot_list) + Len(unchanged_screenshot_list)
              = Len(screenshots)
        /\ skipped_screenshot_list = InitSkipped
        /\ removed_screenshot_list = InitRemoved
        /\ added_screenshot_list = InitAdded

C1_Witness ==
    /\ pc = "returned"
    /\ Len(screenshots) >= 3
    /\ changed_screenshot_list # <<>>
    /\ unchanged_screenshot_list # <<>>

FiveOfHundred == [rawMisMatchPercentage |-> Rat(5, 100), width |-> 10, height |-> 10]

\* C2: in every DiffImageResult has_changed is true exactly when
\* diff_pixel_count >= min_diff_pixel_count, so two results with the same
\* count agree whatever their fractions; 5 differing pixels of 100 give a
\* count of 5, has_changed for threshold 3 and not for threshold 10.
C2_HasChangedIffCountReachesMin ==
    \A i \in Ids : shot[i].diff_image_result # <<>> =>
        LET r == DiffResultOf(i) IN
        /\ r.has_changed <=> RatGeqInt(r.diff_pixel_count, min_diff_pixel_count)
        /\ \A j \in Ids : shot[j].diff_image_result # <<>>
              /\ RatEq(DiffResultOf(j).diff_pixel_count, r.diff_pixel_count)
              => DiffResultOf(j).has_changed = r.has_changed
        /\ resemble[i] = FiveOfHundred =>
              /\ RatEq(r.diff_pixel_count, Rat(5, 1))
              /\ min_diff_pixel_count = 3 => r.has_changed
              /\ min_diff_pixel_count = 10 => ~r.has_changed

\* A changed result beside an unchanged one of a larger fraction.
C2_Witness ==
    \E i, j \in Ids :
        /\ shot[i].diff_image_result # <<>>
        /\ shot[j].diff_image_result # <<>>
        /\ resemble[i] = FiveOfHundred
        /\ DiffResultOf(i).has_changed
        /\ ~DiffResultOf(j).has_changed
        /\ DiffResultOf(j).diff_pixel_fraction.n > DiffResultOf(i).diff_pixel_fraction.n
        /\ DiffResultOf(j).diff_pixel_fraction.d = DiffResultOf(i).diff_pixel_fraction.d

Failed == {i \in Ids : task[i] = "failed"}

\* C4: once a comparison has failed, the Promise.all is rejected with the error
\* of a failed comparison, compareAllScreenshots can only throw that error, and
\* none of the four maps is assigned nor the summary logged.
C4_FailureAbortsBatch ==
    Failed # {} =>
        /\ allPromise.state = "rejected"
        /\ allPromise.reason[1].screenshot \in Failed
        /\ pc \in {"awaiting", "threw"}
        /\ pc = "awaiting" => ENABLED AwaitAllThrows
        /\ pc = "threw" => thrown = allPromise.reason
        /\ assigned = {}
        /\ maps = [m \in MapNames |-> EmptyMap]
        /\ Len(console) = 1

C4_Witness ==
    /\ pc = "threw"
    /\ Cardinality(Failed) = 1
    /\ \E i \in Ids : task[i] = "done"
    /\ thrown[1].screenshot \in Failed

\* C5 as claimed: after an aborted batch the changed and unchanged lists hold
\* no verdict of that batch.
C5_NoPartialResults ==
    pc = "threw" =>
        /\ changed_screenshot_list = <<>>
        /\ unchanged_screenshot_list = <<>>

\* C5, amended: after an aborted batch the changed and unchanged lists hold
\* the verdict of every comparison of the batch that has completed, once each,
\* in the list its has_changed selects, and of no other comparison.
C5_CompletedVerdictsKept ==
    pc = "threw" =>
        /\ Range(changed_screenshot_list) \cup Range(unchanged_screenshot_list)
              = {i \in Ids : task[i] = "done"}
        /\ \A i \in Ids : task[i] = "done" =>
              /\ Occurrences(changed_screenshot_list, i)
                   = (IF DiffResultOf(i).has_changed THEN 1 ELSE 0)
              /\ Occurrences(unchanged_screenshot_list, i)
                   = (IF DiffResultOf(i).has_changed THEN 0 ELSE 1)
        /\ assigned = {}

\* A verdict already reported and a comparison about to report after the abort.
C5_Witness ==
    /\ pc = "threw"
    /\ \E i, j \in Ids :
          /\ task[i] = "done"
          /\ i \in Range(changed_screenshot_list)
          /\ task[j] = "classify"

RECURSIVE Filter(_, _)
Filter(list, keep) ==
    IF list = <<>> THEN <<>>
    ELSE LET front == Filter(SubSeq(list, 1, Len(list) - 1), keep)
         IN  IF list[Len(list)] \in keep THEN Append(front, list[Len(list)])
             ELSE front

InputOrder == [i \in Ids |-> i]
ChangedIds == {i \in Ids : compareOneImage(i).has_changed}

\* The maps of the run whose comparisons complete in the order of the input list.
InputOrderMaps ==
    [m \in MapNames |->
       CASE m = "changed_screenshot_browser_map" ->
              groupByBrowser_(Filter(InputOrder, ChangedIds))
         [] m = "changed_screenshot_page_map" ->
              groupByPage_(Filter(InputOrder, ChangedIds))
         [] m = "unchanged_screenshot_browser_map" ->
              groupByBrowser_(Filter(InputOrder, Ids \ ChangedIds))
         [] OTHER -> groupByPage_(Filter(InputOrder, Ids \ ChangedIds))]

\* C6 as claimed: the four maps are the same for every completion order, that
\* is, they are those of the run that completes in input order.
C6_MapsSameForEveryOrder ==
    pc = "returned" => maps = InputOrderMaps

ListOf(m) ==
    IF m \in {"changed_screenshot_browser_map", "changed_screenshot_page_map"}
    THEN changed_screenshot_list ELSE unchanged_screenshot_list

KeyOf(m, i) ==
    IF m \in {"changed_screenshot_browser_map", "unchanged_screenshot_browser_map"}
    THEN AliasOf(i) ELSE PageOf(i)

\* C6, amended: for every completion order the maps have the same keys and
\* every group the same verdicts, once each; inside a group the verdicts stand
\* in the order of completion, the order of the settled list.
C6_GroupsSameUpToOrder ==
    pc = "returned" =>
        \A m \in MapNames :
            /\ DOMAIN maps[m] = DOMAIN InputOrderMaps[m]
            /\ \A k \in DOMAIN maps[m] :
                  /\ Range(maps[m][k]) = Range(InputOrderMaps[m][k])
                  /\ Len(maps[m][k]) = Len(InputOrderMaps[m][k])
                  /\ maps[m][k] =
                        Filter(ListOf(m), {i \in Ids : KeyOf(m, i) = k})

\* Two verdicts of one group that completed against the input order.
C6_Witness ==
    /\ pc = "returned"
    /\ \E k \in DOMAIN maps["changed_screenshot_browser_map"] :
          /\ Len(maps["changed_screenshot_browser_map"][k]) = 2
          /\ maps["changed_screenshot_browser_map"][k]
                # InputOrderMaps["changed_screenshot_browser_map"][k]


\* ------------------------------------------ further claims on ImageDiffer

Identical == [rawMisMatchPercentage |-> Rat(0, 100), width |-> 10, height |-> 10]

Diffed(i) == shot[i].diff_image_result # <<>>

\* C12 as claimed: two identical images give diff_pixel_fraction = 0,
\* diff_pixel_count = 0 and has_changed = false, whatever min_diff_pixel_count
\* is configured.
C12_IdenticalImagesUnchanged ==
    \A i \in Ids : Diffed(i) /\ resemble[i] = Identical =>
        /\ RatEq(DiffResultOf(i).diff_pixel_fraction, Rat(0, 1))
        /\ RatEq(DiffResultOf(i).diff_pixel_count, Rat(0, 1))
        /\ ~DiffResultOf(i).has_changed

\* C12, amended: two identical images give diff_pixel_fraction = 0 and
\* diff_pixel_count = 0; has_changed is false exactly when the configured
\* min_diff_pixel_count is at least 1, and true when it is 0 (0 >= 0).
C12_IdenticalUnchangedForPositiveMin ==
    \A i \in Ids : Diffed(i) /\ resemble[i] = Identical =>
        /\ RatEq(DiffResultOf(i).diff_pixel_fraction, Rat(0, 1))
        /\ RatEq(DiffResultOf(i).diff_pixel_count, Rat(0, 1))
        /\ DiffResultOf(i).has_changed <=> min_diff_pixel_count <= 0
        /\ i \in Range(unchanged_screenshot_list) <=> min_diff_pixel_count >= 1

\* Identical images compared under a positive threshold and found unchanged.
C12_Witness ==
    \E i \in Ids :
        /\ Diffed(i)
        /\ resemble[i] = Identical
        /\ min_diff_pixel_count = 10
        /\ ~DiffResultOf(i).has_changed
        /\ i \in Range(unchanged_screenshot_list)


Pending == {i \in Ids : task[i] \notin {"done", "failed"}}

\* C14: in compareAllScreenshots every comparison is started before any is
\* awaited, and no grouping map is assigned nor the summary logged while a
\* comparison of the batch is pending: grouping and logging come only after
\* every comparison has completed.
C14_GroupingAfterAllComparisons ==
    /\ pc # "idle" => \A i \in Ids : task[i] # "notStarted"
    /\ (\E i \in Ids : task[i] \notin {"notStarted", "readActual"}) =>
          \A j \in Ids : task[j] # "notStarted"
    /\ (assigned # {} \/ Len(console) > 1 \/ pc = "returned") =>
          /\ Pending = {}
          /\ \A i \in Ids : task[i] = "done"
    /\ Pending # {} => maps = [m \in MapNames |-> EmptyMap]

\* The batch has returned its maps; all three comparisons are done.
C14_Witness ==
    /\ pc = "returned"
    /\ Len(screenshots) = 3
    /\ assigned = MapNames
    /\ \A i \in Ids : task[i] = "done"
    /\ \E m \in MapNames : maps[m] # EmptyMap

IsNextStep(from, to) ==
    \/ from = "notStarted" /\ to = "readActual"
    \/ \E k \in 1..(Len(Stages) - 1) : from = Stages[k] /\ to = Stages[k + 1]
    \/ from = "classify" /\ to = "done"
    \/ from \in {"readActual", "readExpected", "computeDiff", "decode", "write"}
          /\ to = "failed"

\* C15: a comparison moves through read actual, read expected, pixel
\* comparison, decode, write and classification in that order, one step at a
\* time; its diff image is written at the write step only; and a screenshot is
\* DIFFED and in the changed or unchanged list only once its diff image has
\* been written, whatever the other comparisons are doing.
C15_StepsInOrder ==
    [][\A i \in Ids :
          /\ task'[i] # task[i] => IsNextStep(task[i], task'[i])
          /\ (i \in written' /\ i \notin written) => task[i] = "write"
          /\ ( \/ shot'[i].capture_state = "DIFFED"
               \/ i \in Range(changed_screenshot_list')
               \/ i \in Range(unchanged_screenshot_list') ) =>
                /\ i \in written'
                /\ task'[i] = "done"
                /\ (task[i] = "done" \/ task[i] = "classify")]_vars

\* One comparison classified while two others are at earlier, different steps.
C15_Witness ==
    \E i, j, k \in Ids :
        /\ task[i] = "done"
        /\ shot[i].capture_state = "DIFFED"
        /\ i \in written
        /\ task[j] = "readExpected"
        /\ task[k] = "write"
        /\ k \notin written

\* C16: after a successful compareAllScreenshots every verdict in a map is in
\* the list the map was built from; every verdict of a list is in exactly one
\* group of each of its two maps, once, the group keyed by its user-agent
\* alias (browser map) or its html file path (page map); and the verdicts of a
\* group stand in the order they have in the list.
C16_MapsConsistentWithLists ==
    pc = "returned" =>
        \A m \in MapNames :
            /\ \A k \in DOMAIN maps[m] :
                  /\ Range(maps[m][k]) \subseteq Range(ListOf(m))
                  /\ maps[m][k] # <<>>
                  /\ \A a, b \in 1..Len(maps[m][k]) : a < b =>
                        \E x, y \in 1..Len(ListOf(m)) :
                            /\ x < y
                            /\ ListOf(m)[x] = maps[m][k][a]
                            /\ ListOf(m)[y] = maps[m][k][b]
            /\ \A i \in Range(ListOf(m)) :
                  /\ KeyOf(m, i) \in DOMAIN maps[m]
                  /\ Occurrences(maps[m][KeyOf(m, i)], i) = 1
                  /\ \A k \in DOMAIN maps[m] :
                        i \in Range(maps[m][k]) => k = KeyOf(m, i)

\* A group of two verdicts beside a group of one, in a browser or a page map.
C16_Witness ==
    /\ pc = "returned"
    /\ \E m \in MapNames : \E k1, k2 \in DOMAIN maps[m] :
          /\ k1 # k2
          /\ Len(maps[m][k1]) = 2
          /\ Len(maps[m][k2]) = 1

InListAsClassified(i, shots, changed, unchanged) ==
    /\ i \in Range(changed) =>
          /\ shots[i].capture_state = "DIFFED"
          /\ shots[i].diff_image_result # <<>>
          /\ shots[i].diff_image_result[1].has_changed
    /\ i \in Range(unchanged) =>
          /\ shots[i].capture_state = "DIFFED"
          /\ shots[i].diff_image_result # <<>>
          /\ ~shots[i].diff_image_result[1].has_changed

\* C17: the diff result and the capture state of a screenshot change in one
\* step, from not diffed to DIFFED, and never again; a batch that returns has
\* diffed every screenshot; and in every state a screenshot is in the changed
\* list only if it is DIFFED with has_changed true, and in the unchanged list
\* only if it is DIFFED with has_changed false.
C17_MutatedOnce ==
    [][\A i \in Ids :
          /\ shot'[i] # shot[i] =>
                /\ shot[i].capture_state # "DIFFED"
                /\ shot[i].diff_image_result = <<>>
                /\ shot'[i].capture_state = "DIFFED"
                /\ shot'[i].diff_image_result # <<>>
          /\ InListAsClassified(i, shot', changed_screenshot_list',
                                unchanged_screenshot_list')
          /\ pc' = "returned" => shot'[i].capture_state = "DIFFED"]_vars

\* A changed and an unchanged verdict, and a screenshot not yet diffed.
C17_Witness ==
    \E i, j, k \in Ids :
        /\ i \in Range(changed_screenshot_list)
        /\ DiffResultOf(i).has_changed
        /\ j \in Range(unchanged_screenshot_list)
        /\ ~DiffResultOf(j).has_changed
        /\ shot[k].capture_state = "CAPTURED"
        /\ task[k] = "classify"

\* --------------------------------------------- claims on compareVersions

Ver6 == <<"6">>
Ver600 == <<"6", ".", "0", ".", "0">>
Ver602 == <<"6", ".", "0", ".", "2">>

\* C7: compareVersions is reflexive and antisymmetric for all version strings,
\* compare("6", "6.0.0") = 0 and compare("6", "6.0.2") < 0.
C7_ReflexiveAntisymmetric ==
    compared # <<>> =>
        /\ compared[1].self = 0
        /\ compared[1].forward = -compared[1].backward
        /\ versionA = Ver6 /\ versionB = Ver600 => compared[1].forward = 0
        /\ versionA = Ver6 /\ versionB = Ver602 => compared[1].forward < 0


\* The parsed array, padded with zeros to length n.
PadTo(v, n) == [k \in 1..n |-> IF k <= Len(v) THEN v[k] ELSE Num(0)]

\* The lexicographic comparison the claim refers to: the difference at the
\* first index where the padded arrays differ, 0 if there is none.
ReferenceCompare(version1, version2) ==
    LET n == Max(Len(parseVersionNumber(version1)), Len(parseVersionNumber(version2)))
        a == PadTo(parseVersionNumber(version1), n)
        b == PadTo(parseVersionNumber(version2), n)
        differing == {k \in 1..n : ~StrictEquals(a[k], b[k])}
    IN  IF differing = {} THEN Num(0)
        ELSE LET first == CHOOSE k \in differing : \A h \in differing : k <= h
             IN  Minus(a[first], b[first])

\* C18: compareVersions returns what the lexicographic comparison of the two
\* parsed arrays, the shorter padded with zeros, returns: the elementwise
\* difference at the leftmost index where they differ, 0 if they differ
\* nowhere.
C18_EqualsLexicographicReference ==
    compared # <<>> =>
        /\ Num(compared[1].forward) = ReferenceCompare(versionA, versionB)
        /\ Num(compared[1].backward) = ReferenceCompare(versionB, versionA)


\* version1 has a segment that is not a number where version2 has a number.
NonNumericAgainstNumeric(version1, version2) ==
    \E k \in 1..Len(parseVersionNumber(version1)) :
        /\ parseVersionNumber(version1)[k].nan
        /\ k <= Len(parseVersionNumber(version2))
        /\ ~parseVersionNumber(version2)[k].nan

\* C21: a segment that is not numeric after normalization parses to NaN and
\* counts as a mismatch: compareVersions never returns 0, either way round,
\* for a version with such a segment and a version whose segment at that
\* position is numeric.
C21_NonNumericNeverEqual ==
    compared # <<>> /\ NonNumericAgainstNumeric(versionA, versionB) =>
        /\ compared[1].forward # 0
        /\ compared[1].backward # 0

\* --------------------------------------- claims on fetchAvailableDevices

\* C3: whatever calls are made, before or after the first fetch completes and
\* from whichever instance, at most one request is sent, and every call
\* follows the promise of the first call and so yields the first call's result.
C3_OneRequestOneResult ==
    /\ Len(promises) <= 1
    /\ \A c \in DOMAIN calls :
          /\ calls[c].promise = calls[1].promise
          /\ calls[c].settled # <<>> =>
                /\ calls[c].settled[1] = promises[calls[1].promise]
                /\ calls[1].settled # <<>> => calls[c].settled = calls[1].settled

\* Calls of two instances made while the request was pending and after it was
\* answered, all settled with the catalog.
C3_Witness ==
    /\ Len(calls) = 3
    /\ {calls[c].instance : c \in DOMAIN calls} = CbtApiInstances
    /\ calls[1].found = "unset"
    /\ calls[2].found = "pending"
    /\ calls[3].found = "fulfilled"
    /\ \A c \in DOMAIN calls :
          calls[c].settled # <<>> /\ calls[c].settled[1].state = "fulfilled"


FirstFetchFailed == promises # <<>> /\ promises[1].state = "rejected"

\* C22: once the first request has failed, the rejected promise stays the
\* cached one and no second request is sent; every call, made before or after
\* the failure, follows that promise and fails with the error of the first
\* request, and so does every resolution that awaits it.
C22_FailedFetchMemoized ==
    FirstFetchFailed =>
        /\ Len(promises) = 1
        /\ allBrowsersPromise = 1
        /\ \A c \in DOMAIN calls :
              /\ calls[c].promise = 1
              /\ calls[c].settled # <<>> =>
                    /\ calls[c].settled[1].state = "rejected"
                    /\ calls[c].settled[1].value = promises[1].value
              /\ calls[c].resolved # <<>> =>
                    /\ calls[c].resolved[1].state = "rejected"
                    /\ calls[c].resolved[1].value = promises[1].value

\* After the failure, a call of the method and a resolution from another
\* instance, both failed with the first request's error.
C22_Witness ==
    /\ FirstFetchFailed
    /\ Len(calls) = 3
    /\ calls[1].found = "unset"
    /\ calls[2].found = "rejected"
    /\ calls[2].caller = "fetchAvailableDevices"
    /\ calls[3].found = "rejected"
    /\ calls[3].caller = "getMatchingCbtUserAgent_"
    /\ calls[3].instance # calls[1].instance
    /\ \A c \in DOMAIN calls : calls[c].settled # <<>>
    /\ calls[3].resolved = <<[state |-> "rejected", value |-> promises[1].value]>>

\* ------------------------------------ claims on getMatchingCbtUserAgent_

Resolved == matched # <<>> /\ ~matched[1].threw

\* Segment by segment, the target's segments are those the version starts with.
IsSegmentPrefix(target, version) ==
    /\ Len(target) <= Len(version)
    /\ \A k \in 1..Len(target) :
          ~target[k].nan /\ ~version[k].nan /\ target[k].v = version[k].v

PrefixRanks(devices, ua, ranked) ==
    {k \in 1..Len(ranked) :
        IsSegmentPrefix(parseVersionNumber(ua.browser_version_value),
                        parseVersionNumber(BrowserOf(devices, ranked[k]).version))}

Target64 == <<"6", "4">>
TargetLong == <<"6", "4", ".", "0", ".", "3", "2", "8", "2", ".", "1">>

\* C8: under EXACT the result is the highest-ranked candidate whose parsed
\* browser version starts with the parsed target version, segment by segment,
\* and undefined when there is none (as when the target has more segments);
\* target "64" matches "64.0.3282" and not "63.0.1".
C8_ExactIsFirstPrefixMatch ==
    Resolved /\ userAgent.browser_version_type = "EXACT" =>
        LET ranked == RankedCandidates(allCbtDevices, userAgent)
            hits == PrefixRanks(allCbtDevices, userAgent, ranked)
        IN  /\ hits = {} => matched[1].value = <<>>
            /\ hits # {} =>
                  \E k \in hits :
                      /\ \A h \in hits : k <= h
                      /\ matched[1].value = <<ranked[k]>>
            /\ userAgent.browser_version_value = Target64 /\ matched[1].value # <<>> =>
                  BrowserOf(allCbtDevices, matched[1].value[1]).version
                     \in {Chrome64.version, Chrome64Full.version}
            /\ userAgent.browser_version_value = TargetLong =>
                  matched[1].value = <<>>

\* Target "64" passes over the first-ranked "63.0.1" and picks a "64.0.3282".
C8_Witness ==
    /\ Resolved
    /\ userAgent.browser_version_type = "EXACT"
    /\ userAgent.browser_version_value = Target64
    /\ matched[1].value # <<>>
    /\ BrowserOf(allCbtDevices, matched[1].value[1]).version = Chrome64Full.version
    /\ LET ranked == RankedCandidates(allCbtDevices, userAgent)
       IN  /\ BrowserOf(allCbtDevices, ranked[1]).version = Chrome63.version
           /\ matched[1].value = <<ranked[2]>>

Has64BitVariant(devices, d, b) ==
    \E d2 \in 1..Len(devices) : \E b2 \in 1..Len(devices[d2].browsers) :
        devices[d2].browsers[b2].api_name = X64(devices[d].browsers[b].api_name)

\* C9: a browser entry named N, when an entry named N + "x64" exists anywhere
\* in the catalog, is not in the candidate list, filtered or ranked, and is
\* not what the resolution returns, whatever the version policy.
C9_No32BitBeside64Bit ==
    matched # <<>> =>
        \A d \in 1..Len(allCbtDevices) : \A b \in 1..Len(allCbtDevices[d].browsers) :
            Has64BitVariant(allCbtDevices, d, b) =>
                LET pair == [device |-> d, browser |-> b]
                IN  /\ pair \notin Range(FilterCandidates(allCbtDevices, userAgent))
                    /\ pair \notin Range(RankedCandidates(allCbtDevices, userAgent))
                    /\ matched[1].value # <<pair>>

\* A browser of the required vendor on a matching device, left out for a
\* 64-bit entry that another device holds, while a candidate is returned.
C9_Witness ==
    /\ Resolved
    /\ matched[1].value # <<>>
    /\ \E d \in 1..Len(allCbtDevices) : \E b \in 1..Len(allCbtDevices[d].browsers) :
          /\ isMatchingDevice(userAgent, allCbtDevices[d])
          /\ allCbtDevices[d].browsers[b].type \in requiredBrowserVendors(userAgent).values
          /\ Has64BitVariant(allCbtDevices, d, b)
          /\ \A b2 \in 1..Len(allCbtDevices[d].browsers) :
                allCbtDevices[d].browsers[b2].api_name
                   # X64(allCbtDevices[d].browsers[b].api_name)

\* C10: the selection never raises for a missing match (an exception is only
\* ever the lookup of an enum value the tables lack); PREVIOUS returns the
\* candidate at rank index 1 if there are two or more and undefined otherwise;
\* every type other than EXACT and PREVIOUS returns the candidate at rank
\* index 0, undefined if there is none.
C10_PreviousAndLatestByRank ==
    matched # <<>> =>
        LET ranked == RankedCandidates(allCbtDevices, userAgent)
            type == userAgent.browser_version_type
        IN  /\ matched[1].threw =>
                  \/ userAgent.form_factor_type \notin DOMAIN formFactorMap
                  \/ userAgent.os_vendor_type \notin DOMAIN osVendorMap
                  \/ userAgent.browser_vendor_type \notin DOMAIN browserVendorMap
            /\ ~matched[1].threw /\ type = "PREVIOUS" =>
                  matched[1].value = IF Len(ranked) >= 2 THEN <<ranked[2]>> ELSE <<>>
            /\ ~matched[1].threw /\ type \notin {"EXACT", "PREVIOUS"} =>
                  matched[1].value = IF Len(ranked) >= 1 THEN <<ranked[1]>> ELSE <<>>

\* PREVIOUS with a single candidate: undefined.
C10_Witness ==
    /\ Resolved
    /\ userAgent.browser_version_type = "PREVIOUS"
    /\ Len(RankedCandidates(allCbtDevices, userAgent)) = 1
    /\ matched[1].value = <<>>

\* The pair the resolution returned is no lower than candidate p.
IsMaximum(devices, ranked, pair) ==
    \A k \in 1..Len(ranked) : SortComparator(devices, pair, ranked[k]) >= 0

\* C11: in the ranked candidate list the comparison by device version, then
\* browser version, then sort_order of the candidate at rank i against the
\* candidate at any later rank j is >= 0, and what LATEST returns is a
\* maximum of the candidates under that comparison.
C11_RankedDescending ==
    Resolved =>
        LET ranked == RankedCandidates(allCbtDevices, userAgent)
        IN  /\ \A i, j \in 1..Len(ranked) :
                  i < j => SortComparator(allCbtDevices, ranked[i], ranked[j]) >= 0
            /\ userAgent.browser_version_type = "LATEST" /\ matched[1].value # <<>> =>
                  IsMaximum(allCbtDevices, ranked, matched[1].value[1])

SkippedFor64Bit(devices, ua, d, b) ==
    /\ isMatchingDevice(ua, devices[d])
    /\ devices[d].browsers[b].type \in requiredBrowserVendors(ua).values
    /\ X64(devices[d].browsers[b].api_name) \in allBrowserApiNames(devices)

\* C19: whenever a browser of a matching device is skipped because an entry
\* named api_name + "x64" exists in the catalog, an entry of that name is in
\* the candidate list.
C19_Skipped32BitHas64BitCandidate ==
    Resolved =>
        \A d \in 1..Len(allCbtDevices) : \A b \in 1..Len(allCbtDevices[d].browsers) :
            SkippedFor64Bit(allCbtDevices, userAgent, d, b) =>
                \E k \in 1..Len(FilterCandidates(allCbtDevices, userAgent)) :
                    BrowserOf(allCbtDevices,
                              FilterCandidates(allCbtDevices, userAgent)[k]).api_name
                       = X64(allCbtDevices[d].browsers[b].api_name)

\* The pairs the claim describes, from the catalog and the three tables.
ExpectedCandidates(devices, ua) ==
    UNION { { [device |-> d, browser |-> b] :
                b \in { c \in 1..Len(devices[d].browsers) :
                          /\ devices[d].device \in formFactorMap[ua.form_factor_type]
                          /\ devices[d].type \in osVendorMap[ua.os_vendor_type]
                          /\ devices[d].browsers[c].type
                                \in browserVendorMap[ua.browser_vendor_type]
                          /\ ~Has64BitVariant(devices, d, c) } } :
            d \in 1..Len(devices) }

\* C20: when the three enum values of the user agent are in the tables, the
\* candidate list holds exactly the (device, browser) pairs of the catalog
\* whose device has a required form factor and a required OS vendor type,
\* whose browser has a required vendor type, and for whose api_name no
\* api_name + "x64" exists in the catalog: all of them, no other, each once,
\* before and after the ranking.
C20_CandidatesExactlyTheMatches ==
    /\ Resolved
    /\ userAgent.form_factor_type \in DOMAIN formFactorMap
    /\ userAgent.os_vendor_type \in DOMAIN osVendorMap
    /\ userAgent.browser_vendor_type \in DOMAIN browserVendorMap
    => LET filtered == FilterCandidates(allCbtDevices, userAgent)
           ranked == RankedCandidates(allCbtDevices, userAgent)
           expected == ExpectedCandidates(allCbtDevices, userAgent)
       IN  /\ Range(filtered) = expected
           /\ Len(filtered) = Cardinality(expected)
           /\ Range(ranked) = expected
           /\ Len(ranked) = Cardinality(expected)

\* Two devices of the required form factor, one of another OS vendor; on the
\* matching one a candidate beside a browser of another vendor.
C20_Witness ==
    /\ Resolved
    /\ Len(allCbtDevices) = 2
    /\ Len(FilterCandidates(allCbtDevices, userAgent)) = 1
    /\ \E d1, d2 \in 1..2 :
          /\ allCbtDevices[d1].device \in formFactorMap[userAgent.form_factor_type]
          /\ allCbtDevices[d1].type \notin osVendorMap[userAgent.os_vendor_type]
          /\ \E b \in 1..Len(allCbtDevices[d1].browsers) :
                allCbtDevices[d1].browsers[b].type
                   \in browserVendorMap[userAgent.browser_vendor_type]
          /\ FilterCandidates(allCbtDevices, userAgent)[1].device = d2
          /\ \E b \in 1..Len(allCbtDevices[d2].browsers) :
                allCbtDevices[d2].browsers[b].type
                   \notin browserVendorMap[userAgent.browser_vendor_type]

====
